---------------------------- MODULE Spec2Model ----------------------------
(***************************************************************************)
(* The ChatRoom Durable Object of src/worker.ts as a state machine: the    *)
(* live session set, the bounded message history, the persisted copy, the  *)
(* pending alarm, and what every client has received on its WebSocket.     *)
(*                                                                         *)
(* Each event the runtime delivers to the object (the end of the           *)
(* constructor's blocking load, fetch, a WebSocket message / close / error *)
(* event, alarm) is one action: the handlers are synchronous, and the      *)
(* awaits of alarm() are storage operations, during which the object's     *)
(* input gate holds every other event back.                                *)
(***************************************************************************)
EXTENDS Integers, Sequences, FiniteSets, TLC

(***************************************************************************)
(* Bounds of the model.                                                    *)
(***************************************************************************)
\* WebSocket sessions ever admitted
MaxSessions == 3
\* inbound frames ever accepted as chat messages
MaxMessages == 2
\* steps of the wall clock
MaxTicks == 2
\* peers that ever go away
MaxDrops == 1
\* requests, frames, clock steps, peers gone and alarm runs, together
MaxEvents == 4
\* the same, in the runs that start from a full history
MaxEventsFull == 3

(***************************************************************************)
(* Program constants.                                                      *)
(***************************************************************************)
\* worker.ts:115-116: the history keeps the last 100 messages
MaxHistory == 100
\* worker.ts:206: 24 * 60 * 60 * 1000
DayMs == 24 * 60 * 60 * 1000
\* worker.ts:210: 60 * 60 * 1000
HourMs == 60 * 60 * 1000
\* worker.ts:49, 53, 91: the statuses of the three responses of fetch
StatusBadRequest == 400
StatusUpgradeRequired == 426
StatusSwitching == 101

\* the wall clock advances in steps of 12 hours, from StartTime on
TickMs == 12 * HourMs
StartTime == DayMs
EndTime == StartTime + MaxTicks * TickMs

VARIABLES
    loaded,          \* the constructor's blockConcurrencyWhile callback has run
    sessions,        \* this.sessions: the live sessions, in insertion order
    sessionObj,      \* every WebSocketSession object ever created, by number
    ws,              \* the state of each session's server WebSocket
    fired,           \* the close / error events already dispatched, per socket
    outbox,          \* the frames each client has received, in order
    messageHistory,  \* this.messageHistory
    stored,          \* the value under 'messages' in ctx.storage
    alarms,          \* the pending alarm of ctx.storage (at most one)
    now,             \* Date.now()
    nextId,          \* the next value of crypto.randomUUID()
    msgCount,        \* chat messages accepted so far
    alarmRuns,       \* runs of alarm() so far
    refused,         \* requests rejected and frames discarded so far
    budget,          \* the bound on the events of this run
    lastEvent        \* the event handled last, with its inputs and outcome

vars == <<loaded, sessions, sessionObj, ws, fired, outbox, messageHistory,
          stored, alarms, now, nextId, msgCount, alarmRuns, refused,
          budget, lastEvent>>

(***************************************************************************)
(* JavaScript values.                                                      *)
(***************************************************************************)
\* null, as URLSearchParams.get and Headers.get return it for a missing name
Null == "<null>"
\* what ctx.storage holds under a key: nothing (get resolves to undefined)
\* or a value
NoValue == [present |-> FALSE, value |-> <<>>]
Stored(v) == [present |-> TRUE, value |-> v]

\* v === null in the place of !v
IsNull(v) == v = Null

\* !v of a string-or-null
Falsy(v) == v = Null \/ v = ""

\* JSON values: t is the JavaScript type, s the string, n the number
Undefined == [t |-> "undefined", s |-> "", n |-> 0]
Str(x) == [t |-> "string", s |-> x, n |-> 0]
Num(x) == [t |-> "number", s |-> "", n |-> x]

\* `parsed.content !== undefined` in the place of the truthiness test
Defined(j) == j.t # "undefined"

\* the truthiness of a JSON value, as `&& parsed.content` tests it
Truthy(j) ==
    CASE j.t = "undefined" -> FALSE
      [] j.t = "null"      -> FALSE
      [] j.t = "string"    -> j.s # ""
      [] j.t = "number"    -> j.n # 0
      [] j.t = "boolean"   -> j.n # 0
      [] OTHER             -> TRUE

(***************************************************************************)
(* Inbound frames, as the texts a client sends.                            *)
(***************************************************************************)
FrameGarbage == "not json"
FrameNull == "null"
FrameJoin == "{\"type\":\"join\",\"content\":\"x\"}"
FrameNoContent == "{\"type\":\"message\"}"
FrameEmpty == "{\"type\":\"message\",\"content\":\"\"}"
FrameHi == "{\"type\":\"message\",\"content\":\"hi\",\"userId\":\"u2\",\"username\":\"Bob\"}"
FrameNumber == "{\"type\":\"message\",\"content\":5}"

Frames == {FrameGarbage, FrameNull, FrameJoin, FrameNoContent, FrameEmpty,
           FrameHi, FrameNumber}

\* JSON.parse(data): threw is a SyntaxError; isNull is the value null, a
\* property read of which throws a TypeError; otherwise the properties of
\* the object that the text denotes
Parsed(threw, isNull, type, content, userId, username) ==
    [threw |-> threw, isNull |-> isNull, type |-> type, content |-> content,
     userId |-> userId, username |-> username]

JSONParse(data) ==
    CASE data = FrameGarbage ->
            Parsed(TRUE, FALSE, Undefined, Undefined, Undefined, Undefined)
      [] data = FrameNull ->
            Parsed(FALSE, TRUE, Undefined, Undefined, Undefined, Undefined)
      [] data = FrameJoin ->
            Parsed(FALSE, FALSE, Str("join"), Str("x"), Undefined, Undefined)
      [] data = FrameNoContent ->
            Parsed(FALSE, FALSE, Str("message"), Undefined, Undefined, Undefined)
      [] data = FrameEmpty ->
            Parsed(FALSE, FALSE, Str("message"), Str(""), Undefined, Undefined)
      [] data = FrameHi ->
            Parsed(FALSE, FALSE, Str("message"), Str("hi"), Str("u2"), Str("Bob"))
      [] data = FrameNumber ->
            Parsed(FALSE, FALSE, Str("message"), Num(5), Undefined, Undefined)

(***************************************************************************)
(* Records of the program.                                                 *)
(***************************************************************************)
\* interface WebSocketSession; quit is never assigned, so it reads undefined
WebSocketSession(userId, username) ==
    [userId |-> userId, username |-> username, quit |-> FALSE]

\* a ChatMessage with content (type 'message')
ChatMessage(id, userId, username, content, timestamp) ==
    [id |-> id, type |-> "message", userId |-> userId, username |-> username,
     content |-> content, timestamp |-> timestamp]

\* a ChatMessage without content (type 'join' or 'leave')
ChatEvent(id, type, userId, username, timestamp) ==
    [id |-> id, type |-> type, userId |-> userId, username |-> username,
     timestamp |-> timestamp]

\* the payload of sendMessageHistory
HistoryFrame(messages) == [type |-> "history", messages |-> messages]

\* the payload of sendPresence
PresenceFrame(users) == [type |-> "presence", users |-> users]

(***************************************************************************)
(* Helpers of the handlers.                                                *)
(***************************************************************************)
\* a send whose frame reaches the client ahead of the frames sent before
SendFront(ob, w, s, frame) ==
    IF w[s] = "open" THEN [ob EXCEPT ![s] = <<frame>> \o @] ELSE ob

\* webSocket.send(text) inside try/catch: a socket that is no longer open
\* throws, and the catch swallows it
Send(ob, w, s, frame) ==
    IF w[s] = "open" THEN [ob EXCEPT ![s] = Append(@, frame)] ELSE ob

\* a forEach without the try/catch: the first send that throws ends it
RECURSIVE BroadcastUncaught(_, _, _, _)
BroadcastUncaught(ob, w, live, message) ==
    IF live = <<>> \/ w[Head(live)] # "open" THEN ob
    ELSE BroadcastUncaught(Send(ob, w, Head(live), message), w, Tail(live),
                           message)

\* this.sessions.forEach(send), in the set's insertion order
RECURSIVE Broadcast(_, _, _, _)
Broadcast(ob, w, live, message) ==
    IF live = <<>> THEN ob
    ELSE Broadcast(Send(ob, w, Head(live), message), w, Tail(live), message)

\* the entries of a user list with a userId seen before left out
RECURSIVE MergeByUserId(_, _)
MergeByUserId(users, seen) ==
    IF users = <<>> THEN <<>>
    ELSE IF Head(users).userId \in seen
    THEN MergeByUserId(Tail(users), seen)
    ELSE <<Head(users)>>
             \o MergeByUserId(Tail(users), seen \cup {Head(users).userId})

\* the user list with one entry per userId
PresenceUsersMerged(live, objs) ==
    MergeByUserId(
        [i \in 1..Len(live) |->
            [userId |-> objs[live[i]].userId,
             username |-> objs[live[i]].username]], {})

\* Array.from(this.sessions).map(s => ({userId, username}))
PresenceUsers(live, objs) ==
    [i \in 1..Len(live) |->
        [userId |-> objs[live[i]].userId, username |-> objs[live[i]].username]]

\* this.sessions.delete(session)
SetDelete(live, s) == SelectSeq(live, LAMBDA x : x # s)

\* push(message), then slice(0, 100): the newest entry is the one cut
PushKeepOldest(history, message) ==
    LET pushed == Append(history, message)
    IN  IF Len(pushed) > MaxHistory THEN SubSeq(pushed, 1, MaxHistory)
        ELSE pushed

\* push(message), then slice(-100) when longer than 100
PushCapped(history, message) ==
    LET pushed == Append(history, message)
    IN  IF Len(pushed) > MaxHistory
        THEN SubSeq(pushed, Len(pushed) - MaxHistory + 1, Len(pushed))
        ELSE pushed

\* filter(msg => msg.timestamp >= oneDayAgo)
FilterRecentInclusive(history, oneDayAgo) ==
    SelectSeq(history, LAMBDA msg : msg.timestamp >= oneDayAgo)

\* filter(msg => msg.timestamp > oneDayAgo)
FilterRecent(history, oneDayAgo) ==
    SelectSeq(history, LAMBDA msg : msg.timestamp > oneDayAgo)

\* the record of the event handled last: the handler, the session it
\* admitted, removed or accepted a message of (0: none), the frame it was
\* given, the status it answered, whether its put was stored
Event(op, sid, text, status, putOk) ==
    [op |-> op, sid |-> sid, text |-> text, status |-> status, putOk |-> putOk]

(***************************************************************************)
(* What the store may hold when the object is instantiated.                *)
(***************************************************************************)
\* n messages persisted by an earlier instance: the first a day old at
\* StartTime, the others twelve hours old
OldHistory(n) ==
    [i \in 1..n |->
        ChatMessage(i, "u1", "Ann", Str("old"), IF i = 1 THEN 0 ELSE TickMs)]

\* a room never used, and a room an earlier instance has written, with
\* or without a wake-up that is due
InitialStores == {NoValue, Stored(OldHistory(2))}
FullStores == {Stored(OldHistory(MaxHistory))}
InitialAlarms(v) == IF v.present THEN {{}, {StartTime}} ELSE {{}}

\* the bounded events of the run so far
Spent ==
    Len(sessionObj) + msgCount + alarmRuns + refused
        + (now - StartTime) \div TickMs
        + Cardinality({t \in 1..Len(ws) : ws[t] # "open"})

StoredLen(v) == Len(v.value)

\* constructor: empty containers, and the load is pending
InitWith(stores, events) ==
    /\ loaded = FALSE
    /\ sessions = <<>>
    /\ sessionObj = <<>>
    /\ ws = <<>>
    /\ fired = <<>>
    /\ outbox = <<>>
    /\ messageHistory = <<>>
    /\ stored \in stores
    /\ alarms \in InitialAlarms(stored)
    /\ now = StartTime
    /\ nextId = StoredLen(stored) + 1
    /\ msgCount = 0
    /\ alarmRuns = 0
    /\ refused = 0
    /\ budget = events
    /\ lastEvent = Event("constructor", 0, "", 0, TRUE)

Init == InitWith(InitialStores, MaxEvents)

(***************************************************************************)
(* Actions.                                                                *)
(***************************************************************************)
\* the callback of blockConcurrencyWhile
Load ==
    /\ ~loaded
    /\ loaded' = TRUE
    /\ messageHistory' = IF stored.present THEN stored.value ELSE messageHistory
    /\ lastEvent' = Event("load", 0, "", 0, TRUE)
    /\ UNCHANGED <<budget, refused, sessions, sessionObj, ws, fired, outbox,
                   stored, alarms, now, nextId, msgCount, alarmRuns>>

\* Date.now() moves on
Tick ==
    /\ now + TickMs <= EndTime
    /\ Spent < budget
    /\ now' = now + TickMs
    /\ lastEvent' = Event("tick", 0, "", 0, TRUE)
    /\ UNCHANGED <<loaded, budget, refused, sessions, sessionObj, ws, fired,
                   outbox, messageHistory, stored, alarms, nextId, msgCount,
                   alarmRuns>>

\* the requests tried: ?userId=..&username=.. and the Upgrade header
Request(userId, username, upgrade) ==
    [userId |-> userId, username |-> username, upgrade |-> upgrade]

Requests ==
    {Request("u1", "Ann", "websocket"), Request("u2", "Bob", "websocket"),
     Request(Null, "Ann", "websocket"), Request("u1", "", "websocket"),
     Request("u2", "Bob", Null), Request("u1", "Ann", "h2c")}

\* Admit with sendPresence called before the join broadcast
AdmitPresenceFirst(userId, username) ==
    LET sid   == Len(sessionObj) + 1
        objs  == Append(sessionObj, WebSocketSession(userId, username))
        w     == Append(ws, "open")
        live  == Append(sessions, sid)
        ob0   == Append(outbox, <<>>)
        ob1   == Send(ob0, w, sid, HistoryFrame(messageHistory))
        ob2   == Send(ob1, w, sid, PresenceFrame(PresenceUsers(live, objs)))
        ob3   == Broadcast(ob2, w, live,
                           ChatEvent(nextId, "join", userId, username, now))
    IN  /\ sessionObj' = objs
        /\ ws' = w
        /\ fired' = Append(fired, {})
        /\ sessions' = live
        /\ outbox' = ob3
        /\ nextId' = nextId + 1

\* Admit with the history batch read from the persisted copy
AdmitStoredHistory(userId, username) ==
    LET sid   == Len(sessionObj) + 1
        objs  == Append(sessionObj, WebSocketSession(userId, username))
        w     == Append(ws, "open")
        live  == Append(sessions, sid)
        ob0   == Append(outbox, <<>>)
        ob1   == Send(ob0, w, sid,
                      HistoryFrame(stored.value))
        ob2   == Broadcast(ob1, w, live,
                           ChatEvent(nextId, "join", userId, username, now))
        ob3   == Send(ob2, w, sid, PresenceFrame(PresenceUsers(live, objs)))
    IN  /\ sessionObj' = objs
        /\ ws' = w
        /\ fired' = Append(fired, {})
        /\ sessions' = live
        /\ outbox' = ob3
        /\ nextId' = nextId + 1

\* fetch, from the session object on
Admit(userId, username) ==
    LET sid   == Len(sessionObj) + 1
        objs  == Append(sessionObj, WebSocketSession(userId, username))
        w     == Append(ws, "open")
        live  == Append(sessions, sid)
        ob0   == Append(outbox, <<>>)
        ob1   == Send(ob0, w, sid, HistoryFrame(messageHistory))
        ob2   == Broadcast(ob1, w, live,
                           ChatEvent(nextId, "join", userId, username, now))
        ob3   == Send(ob2, w, sid, PresenceFrame(PresenceUsers(live, objs)))
    IN  /\ sessionObj' = objs
        /\ ws' = w
        /\ fired' = Append(fired, {})
        /\ sessions' = live
        /\ outbox' = ob3
        /\ nextId' = nextId + 1

\* fetch served while the constructor's load is still pending
FetchUnguarded(userId, username, upgrade) ==
    /\ Spent < budget
    /\ IF Falsy(userId) \/ Falsy(username)
       THEN /\ lastEvent' = Event("fetch", 0, "", StatusBadRequest, TRUE)
            /\ refused' = refused + 1
            /\ UNCHANGED <<sessions, sessionObj, ws, fired, outbox, nextId>>
       ELSE IF upgrade # "websocket"
       THEN /\ lastEvent' = Event("fetch", 0, "", StatusUpgradeRequired, TRUE)
            /\ refused' = refused + 1
            /\ UNCHANGED <<sessions, sessionObj, ws, fired, outbox, nextId>>
       ELSE /\ Len(sessionObj) < MaxSessions
            /\ Admit(userId, username)
            /\ lastEvent' = Event("fetch", Len(sessionObj) + 1, "",
                                  StatusSwitching, TRUE)
            /\ UNCHANGED refused
    /\ UNCHANGED <<loaded, budget, messageHistory, stored, alarms, now,
                   msgCount, alarmRuns>>

\* fetch: the runtime delivers it once the constructor's load has run
Fetch(userId, username, upgrade) ==
    /\ loaded
    /\ Spent < budget
    /\ IF Falsy(userId) \/ Falsy(username)
       THEN /\ lastEvent' = Event("fetch", 0, "", StatusBadRequest, TRUE)
            /\ refused' = refused + 1
            /\ UNCHANGED <<sessions, sessionObj, ws, fired, outbox, nextId>>
       ELSE IF upgrade # "websocket"
       THEN /\ lastEvent' = Event("fetch", 0, "", StatusUpgradeRequired, TRUE)
            /\ refused' = refused + 1
            /\ UNCHANGED <<sessions, sessionObj, ws, fired, outbox, nextId>>
       ELSE /\ Len(sessionObj) < MaxSessions
            /\ Admit(userId, username)
            /\ lastEvent' = Event("fetch", Len(sessionObj) + 1, "",
                                  StatusSwitching, TRUE)
            /\ UNCHANGED refused
    /\ UNCHANGED <<loaded, budget, messageHistory, stored, alarms, now,
                   msgCount, alarmRuns>>

FetchAny == \E r \in Requests : Fetch(r.userId, r.username, r.upgrade)

Sids == 1..Len(sessionObj)

\* handleMessage with userId and username read from the parsed frame
HandleMessageTrustsPayload(s, data, putOk) ==
    LET parsed == JSONParse(data)
    IN  /\ loaded
        /\ ws[s] = "open"
        /\ Spent < budget
        /\ IF  /\ ~parsed.threw
               /\ ~parsed.isNull
               /\ parsed.type = Str("message")
               /\ Truthy(parsed.content)
           THEN LET message == ChatMessage(nextId, parsed.userId.s,
                                           parsed.username.s,
                                           parsed.content, now)
                    history == PushCapped(messageHistory, message)
                IN  /\ msgCount < MaxMessages
                    /\ messageHistory' = history
                    /\ stored' = IF putOk THEN Stored(history) ELSE stored
                    /\ outbox' = Broadcast(outbox, ws, sessions, message)
                    /\ nextId' = nextId + 1
                    /\ msgCount' = msgCount + 1
                    /\ UNCHANGED refused
                    /\ lastEvent' = Event("message", s, data, 0, putOk)
           ELSE /\ putOk
                /\ lastEvent' = Event("message", 0, data, 0, TRUE)
                /\ refused' = refused + 1
                /\ UNCHANGED <<messageHistory, stored, outbox, nextId,
                               msgCount>>
        /\ UNCHANGED <<loaded, budget, sessions, sessionObj, ws, fired, alarms,
                       now, alarmRuns>>

\* handleMessage with the put awaited: a put that rejects throws into the
\* catch, before the broadcast
HandleMessageAwaitsPut(s, data, putOk) ==
    LET parsed == JSONParse(data)
    IN  /\ loaded
        /\ ws[s] = "open"
        /\ Spent < budget
        /\ IF  /\ ~parsed.threw
               /\ ~parsed.isNull
               /\ parsed.type = Str("message")
               /\ Truthy(parsed.content)
           THEN LET message == ChatMessage(nextId, sessionObj[s].userId,
                                           sessionObj[s].username,
                                           parsed.content, now)
                    history == PushCapped(messageHistory, message)
                IN  /\ msgCount < MaxMessages
                    /\ messageHistory' = history
                    /\ stored' = IF putOk THEN Stored(history) ELSE stored
                    /\ outbox' = IF putOk
                                 THEN Broadcast(outbox, ws, sessions, message)
                                 ELSE outbox
                    /\ nextId' = nextId + 1
                    /\ msgCount' = msgCount + 1
                    /\ UNCHANGED refused
                    /\ lastEvent' = Event("message", s, data, 0, putOk)
           ELSE /\ putOk
                /\ lastEvent' = Event("message", 0, data, 0, TRUE)
                /\ refused' = refused + 1
                /\ UNCHANGED <<messageHistory, stored, outbox, nextId,
                               msgCount>>
        /\ UNCHANGED <<loaded, budget, sessions, sessionObj, ws, fired, alarms,
                       now, alarmRuns>>

\* handleMessage with any type accepted and copied into the entry
HandleMessageAnyType(s, data, putOk) ==
    LET parsed == JSONParse(data)
    IN  /\ loaded
        /\ ws[s] = "open"
        /\ Spent < budget
        /\ IF  /\ ~parsed.threw
               /\ ~parsed.isNull
               /\ parsed.type.t = "string"
               /\ Truthy(parsed.content)
           THEN LET message == [ChatMessage(nextId, sessionObj[s].userId,
                                            sessionObj[s].username,
                                            parsed.content, now)
                                    EXCEPT !.type = parsed.type.s]
                    history == PushCapped(messageHistory, message)
                IN  /\ msgCount < MaxMessages
                    /\ messageHistory' = history
                    /\ stored' = IF putOk THEN Stored(history) ELSE stored
                    /\ outbox' = Broadcast(outbox, ws, sessions, message)
                    /\ nextId' = nextId + 1
                    /\ msgCount' = msgCount + 1
                    /\ UNCHANGED refused
                    /\ lastEvent' = Event("message", s, data, 0, putOk)
           ELSE /\ putOk
                /\ lastEvent' = Event("message", 0, data, 0, TRUE)
                /\ refused' = refused + 1
                /\ UNCHANGED <<messageHistory, stored, outbox, nextId,
                               msgCount>>
        /\ UNCHANGED <<loaded, budget, sessions, sessionObj, ws, fired, alarms,
                       now, alarmRuns>>

\* handleMessage
HandleMessage(s, data, putOk) ==
    LET parsed == JSONParse(data)
    IN  /\ loaded
        /\ ws[s] = "open"
        /\ Spent < budget
        /\ IF  /\ ~parsed.threw
               /\ ~parsed.isNull
               /\ parsed.type = Str("message")
               /\ Truthy(parsed.content)
           THEN LET message == ChatMessage(nextId, sessionObj[s].userId,
                                           sessionObj[s].username,
                                           parsed.content, now)
                    history == PushCapped(messageHistory, message)
                IN  /\ msgCount < MaxMessages
                    /\ messageHistory' = history
                    /\ stored' = IF putOk THEN Stored(history) ELSE stored
                    /\ outbox' = Broadcast(outbox, ws, sessions, message)
                    /\ nextId' = nextId + 1
                    /\ msgCount' = msgCount + 1
                    /\ UNCHANGED refused
                    /\ lastEvent' = Event("message", s, data, 0, putOk)
           ELSE /\ putOk
                /\ lastEvent' = Event("message", 0, data, 0, TRUE)
                /\ refused' = refused + 1
                /\ UNCHANGED <<messageHistory, stored, outbox, nextId,
                               msgCount>>
        /\ UNCHANGED <<loaded, budget, sessions, sessionObj, ws, fired, alarms,
                       now, alarmRuns>>

OnMessage ==
    \E s \in Sids, data \in Frames, putOk \in BOOLEAN :
        HandleMessage(s, data, putOk)

\* handleClose with the leave broadcast made before sessions.delete
HandleCloseBroadcastFirst(s) ==
    LET live == SetDelete(sessions, s)
    IN  /\ sessions' = live
        /\ IF ~sessionObj[s].quit
           THEN /\ outbox' = Broadcast(outbox, ws, sessions,
                                ChatEvent(nextId, "leave", sessionObj[s].userId,
                                          sessionObj[s].username, now))
                /\ nextId' = nextId + 1
           ELSE UNCHANGED <<outbox, nextId>>
        /\ ws' = [ws EXCEPT ![s] = "closed"]

\* handleClose
HandleClose(s) ==
    LET live == SetDelete(sessions, s)
    IN  /\ sessions' = live
        /\ IF ~sessionObj[s].quit
           THEN /\ outbox' = Broadcast(outbox, ws, live,
                                ChatEvent(nextId, "leave", sessionObj[s].userId,
                                          sessionObj[s].username, now))
                /\ nextId' = nextId + 1
           ELSE UNCHANGED <<outbox, nextId>>
        /\ ws' = [ws EXCEPT ![s] = "closed"]

\* the peer goes away: from now on send throws on this socket, and the
\* error / close events are still to be dispatched
PeerDrop ==
    \E s \in Sids :
        /\ loaded
        /\ ws[s] = "open"
        /\ Cardinality({t \in Sids : ws[t] # "open"}) < MaxDrops
        /\ Spent < budget
        /\ ws' = [ws EXCEPT ![s] = "broken"]
        /\ lastEvent' = Event("drop", s, "", 0, TRUE)
        /\ UNCHANGED <<loaded, budget, refused, sessions, sessionObj, fired,
                       outbox, messageHistory, stored, alarms, now, nextId,
                       msgCount, alarmRuns>>

\* the 'error' listener: an error event comes before the socket's close event
OnError ==
    \E s \in Sids :
        /\ loaded
        /\ ws[s] = "broken"
        /\ fired[s] = {}
        /\ HandleClose(s)
        /\ fired' = [fired EXCEPT ![s] = @ \cup {"error"}]
        /\ lastEvent' = Event("error", s, "", 0, TRUE)
        /\ UNCHANGED <<loaded, budget, refused, sessionObj, messageHistory,
                       stored, alarms, now, msgCount, alarmRuns>>

\* the 'close' listener: one close event per socket, after the peer went
\* away, or on the peer's Close frame, when the server side can still send
OnClose ==
    \E s \in Sids :
        /\ loaded
        /\ "close" \notin fired[s]
        /\ ws[s] = "open" =>
              /\ Cardinality({t \in Sids : ws[t] # "open"}) < MaxDrops
              /\ Spent < budget
        /\ HandleClose(s)
        /\ fired' = [fired EXCEPT ![s] = @ \cup {"close"}]
        /\ lastEvent' = Event("close", s, "", 0, TRUE)
        /\ UNCHANGED <<loaded, budget, refused, sessionObj, messageHistory,
                       stored, alarms, now, msgCount, alarmRuns>>

\* alarm with the put issued on the history as it was before the filter
AlarmPutUnfiltered ==
    \E at \in alarms, putOk \in BOOLEAN, retry \in BOOLEAN :
        LET oneDayAgo == now - DayMs
            history   == FilterRecent(messageHistory, oneDayAgo)
        IN  /\ loaded
            /\ now >= at
            /\ Spent < budget
            /\ putOk => ~retry
            /\ alarmRuns' = alarmRuns + 1
            /\ messageHistory' = history
            /\ stored' = IF putOk THEN Stored(messageHistory) ELSE stored
            /\ alarms' = IF putOk THEN {now + HourMs}
                          ELSE IF retry THEN alarms ELSE alarms \ {at}
            /\ lastEvent' = Event("alarm", 0, "", 0, putOk)
            /\ UNCHANGED <<loaded, budget, refused, sessions, sessionObj, ws,
                           fired, outbox, now, nextId, msgCount>>

\* alarm: the runtime takes the due alarm off and runs the handler; a put
\* that rejects ends the handler before setAlarm, and the runtime either
\* keeps the alarm to run the handler again or has given up on it
Alarm ==
    \E at \in alarms, putOk \in BOOLEAN, retry \in BOOLEAN :
        LET oneDayAgo == now - DayMs
            history   == FilterRecent(messageHistory, oneDayAgo)
        IN  /\ loaded
            /\ now >= at
            /\ Spent < budget
            /\ putOk => ~retry
            /\ alarmRuns' = alarmRuns + 1
            /\ messageHistory' = history
            /\ stored' = IF putOk THEN Stored(history) ELSE stored
            /\ alarms' = IF putOk THEN {now + HourMs}
                          ELSE IF retry THEN alarms ELSE alarms \ {at}
            /\ lastEvent' = Event("alarm", 0, "", 0, putOk)
            /\ UNCHANGED <<loaded, budget, refused, sessions, sessionObj, ws,
                           fired, outbox, now, nextId, msgCount>>

Next ==
    \/ Load
    \/ Tick
    \/ FetchAny
    \/ OnMessage
    \/ PeerDrop
    \/ OnError
    \/ OnClose
    \/ Alarm

Spec == Init /\ [][Next]_vars

\* the same room, instantiated over a store that holds a full history
InitFull == InitWith(FullStores, MaxEventsFull)
SpecFull == InitFull /\ [][Next]_vars

\* the runtime runs the pending load, lets time pass, and fires a due alarm
FairSpec == Spec /\ WF_vars(Load) /\ WF_vars(Tick) /\ WF_vars(Alarm)

(***************************************************************************)
(* Properties.                                                             *)
(***************************************************************************)
\* the live sessions, as a set
Live == {sessions[i] : i \in 1..Len(sessions)}

\* the frames of an outbox after the first three
Later(ob) == {ob[i] : i \in 4..Len(ob)}

\* the step ran handleMessage on the text data
MessageStep(data) == lastEvent'.op = "message" /\ lastEvent'.text = data

\* the step ran alarm()
AlarmStep == lastEvent'.op = "alarm" /\ alarmRuns' = alarmRuns + 1

\* the step ran fetch and answered 101
AdmitStep == lastEvent'.op = "fetch" /\ Len(sessionObj') = Len(sessionObj) + 1

\* C1: every admitted session has received a history batch, then a join
\* event with its own userId and username, then a presence snapshot, as
\* its first three frames, and no other history batch or presence
\* snapshot after them.
C1_AdmissionOrder ==
    \A s \in Sids :
        /\ Len(outbox[s]) >= 3
        /\ outbox[s][1].type = "history"
        /\ outbox[s][2].type = "join"
        /\ outbox[s][2].userId = sessionObj[s].userId
        /\ outbox[s][2].username = sessionObj[s].username
        /\ outbox[s][3].type = "presence"
        /\ \A f \in Later(outbox[s]) : f.type \notin {"history", "presence"}

\* a second session has just been admitted beside a live first one
C1_Witness ==
    /\ lastEvent.op = "fetch"
    /\ lastEvent.sid = 2
    /\ sessions = <<1, 2>>
    /\ Len(outbox[2]) = 3
    /\ sessionObj[1].userId # sessionObj[2].userId

\* C2: when a valid message frame is handled, the minted message is
\* appended to the outbox of every live session whose socket is open, the
\* sender's among them; the live sessions whose send throws get nothing,
\* and the handler completes.
C2_BroadcastReachesLive ==
    [][MessageStep(FrameHi) =>
        LET m == messageHistory'[Len(messageHistory')]
        IN  /\ m.type = "message"
            /\ m.id = nextId
            /\ lastEvent'.sid \in Live
            /\ ws[lastEvent'.sid] = "open"
            /\ \A t \in Live :
                  outbox'[t] = IF ws[t] = "open" THEN Append(outbox[t], m)
                               ELSE outbox[t]
            /\ sessions' = sessions]_vars

\* the sender got its message although the send to the session before it
\* in the set threw
C2_Witness ==
    /\ lastEvent.op = "message"
    /\ lastEvent.text = FrameHi
    /\ lastEvent.sid = 2
    /\ sessions = <<1, 2>>
    /\ ws[1] = "broken"
    /\ outbox[2][Len(outbox[2])].type = "message"

\* C3: the history never holds more than 100 entries, and an append to a
\* history of 100 drops exactly its oldest entry and keeps the others in
\* order, the new message last.
C3_HistoryCapFifo ==
    /\ [](Len(messageHistory) <= MaxHistory)
    /\ [][(lastEvent'.op = "message" /\ msgCount' = msgCount + 1) =>
            LET m == messageHistory'[Len(messageHistory')]
            IN  /\ m.id = nextId
                /\ messageHistory' =
                      IF Len(messageHistory) = MaxHistory
                      THEN Tail(messageHistory) \o <<m>>
                      ELSE messageHistory \o <<m>>]_vars

\* the 101st message has pushed the first out: messages 2..100 and the
\* new one are left
C3_Witness ==
    /\ lastEvent.op = "message"
    /\ Len(messageHistory) = MaxHistory
    /\ messageHistory[1].id = 2
    /\ messageHistory[MaxHistory - 1].id = MaxHistory
    /\ messageHistory[MaxHistory].content = Str("hi")

\* C4: a run of handleClose for a session that is no longer in the live
\* set sends nothing and changes nothing.
C4_SecondCloseIsNoOp ==
    [][((lastEvent'.op \in {"close", "error"}) /\ lastEvent'.sid \notin Live)
        => UNCHANGED <<outbox, sessions, messageHistory, stored, nextId>>]_vars

\* the frames the claim calls malformed
MalformedFrames ==
    {FrameGarbage, FrameNull, FrameJoin, FrameNoContent, FrameEmpty}

\* C5: handling a frame that does not parse, whose type is not "message",
\* or whose content is missing or empty sends nothing, leaves the history
\* and the store as they are, and leaves the session set as it is.
C5_MalformedDropped ==
    [][(\E data \in MalformedFrames : MessageStep(data))
        => UNCHANGED <<outbox, messageHistory, stored, sessions, nextId>>]_vars

\* a malformed frame has been handled in a room with a live session and
\* a history
C5_Witness ==
    /\ lastEvent.op = "message"
    /\ lastEvent.text \in MalformedFrames
    /\ sessions # <<>>
    /\ messageHistory # <<>>

\* the place of the message with this id in a history
IndexOf(history, id) == CHOOSE i \in 1..Len(history) : history[i].id = id

\* C6: after a run of alarm() at time now, every entry kept is newer than
\* now - 24h, every entry of the history that was newer than that is
\* kept, and the entries kept are in the order they had.
C6_CleanupKeepsRecent ==
    [][AlarmStep =>
        LET cutoff == now - DayMs
            recent == {i \in 1..Len(messageHistory) :
                          messageHistory[i].timestamp > cutoff}
        IN  /\ \A j \in 1..Len(messageHistory') :
                  /\ messageHistory'[j].timestamp > cutoff
                  /\ \E i \in recent : messageHistory[i] = messageHistory'[j]
            /\ Len(messageHistory') = Cardinality(recent)
            /\ \A j, k \in 1..Len(messageHistory') :
                  j < k => IndexOf(messageHistory, messageHistory'[j].id)
                             < IndexOf(messageHistory, messageHistory'[k].id)]_vars

\* a cleanup has dropped the entry that was exactly 24 hours old and kept
\* the two newer ones
C6_Witness ==
    /\ lastEvent.op = "alarm"
    /\ Len(messageHistory) = 2
    /\ messageHistory[1].id = 2
    /\ messageHistory[1].timestamp < messageHistory[2].timestamp

\* C7: after every run of alarm() exactly one wake-up is pending, one hour
\* after the time of the run.
C7_AlarmReschedules ==
    [][AlarmStep => alarms' = {now + HourMs}]_vars

\* C8: in a room instantiated with no wake-up pending, a run of alarm()
\* eventually occurs.
C8_CleanupEventuallyFires ==
    (alarms = {}) => <>(alarmRuns > 0)

\* C9: a fetch whose userId or username is missing or empty, or whose
\* Upgrade header is not websocket, answers 400 or 426, adds no session,
\* sends nothing and leaves the history as it is.
C9_RejectedAdmissionNoEffect ==
    [][lastEvent'.op = "fetch" => \A r \in Requests :
          (/\ \/ r.userId \in {Null, ""}
              \/ r.username \in {Null, ""}
              \/ r.upgrade # "websocket"
           /\ Fetch(r.userId, r.username, r.upgrade))
          => /\ lastEvent'.status \in {StatusBadRequest, StatusUpgradeRequired}
             /\ UNCHANGED <<sessions, sessionObj, ws, outbox, messageHistory,
                            stored, nextId>>]_vars

\* a fetch has been rejected in a room with a live session and a history
C9_Witness ==
    /\ lastEvent.op = "fetch"
    /\ lastEvent.status \in {StatusBadRequest, StatusUpgradeRequired}
    /\ sessions # <<>>
    /\ messageHistory # <<>>

\* C10: the first frame a newly admitted session receives is the history
\* batch whose messages are the in-memory history at that moment.
C10_HistoryBatchIsHistory ==
    [][AdmitStep =>
        /\ lastEvent'.sid = Len(sessionObj')
        /\ outbox'[lastEvent'.sid][1].type = "history"
        /\ outbox'[lastEvent'.sid][1].messages = messageHistory]_vars

\* in a room that started empty the second session has received a
\* history of length 1 that holds the first session's message
C10_Witness ==
    /\ lastEvent.op = "fetch"
    /\ lastEvent.sid = 2
    /\ Len(outbox[2][1].messages) = 1
    /\ outbox[2][1].messages[1].userId = sessionObj[1].userId
    /\ outbox[2][1].messages[1].content = Str("hi")
    /\ outbox[2][1].messages = messageHistory

\* the step ran handleClose from the close or the error listener
CloseStep == lastEvent'.op \in {"close", "error"}

\* the sessions whose close or error event has been handled
Departed == {s \in Sids : fired[s] # {}}

\* C11: a session whose close or error event has been handled is not in
\* the live set; the run of handleClose appends one leave event with the
\* departed session's userId and username to every remaining live session
\* whose socket is open, and nothing to the departed one; a departed
\* session receives no frame afterwards; and the presence snapshot of a
\* later joiner has one entry per live session, none of them departed.
C11_DepartureAnnounced ==
    /\ [](Departed \cap Live = {})
    /\ [][CloseStep =>
            LET s     == lastEvent'.sid
                leave == ChatEvent(nextId, "leave", sessionObj[s].userId,
                                   sessionObj[s].username, now)
            IN  /\ s \notin {sessions'[i] : i \in 1..Len(sessions')}
                /\ outbox'[s] = outbox[s]
                /\ \A t \in {sessions'[i] : i \in 1..Len(sessions')} :
                      outbox'[t] = IF ws[t] = "open"
                                   THEN Append(outbox[t], leave)
                                   ELSE outbox[t]]_vars
    /\ [][\A s \in Departed : outbox'[s] = outbox[s]]_vars
    /\ [][AdmitStep =>
            LET users == outbox'[Len(sessionObj')][3].users
            IN  /\ Len(users) = Len(sessions')
                /\ \A i \in 1..Len(users) :
                      /\ sessions'[i] \notin Departed
                      /\ users[i].userId = sessionObj'[sessions'[i]].userId
                      /\ users[i].username
                            = sessionObj'[sessions'[i]].username]_vars

\* the first session has departed, the second has received its leave
\* event, and a third has joined since and been told of two users
C11_Witness ==
    /\ lastEvent.op = "fetch"
    /\ lastEvent.sid = 3
    /\ sessions = <<2, 3>>
    /\ Departed = {1}
    /\ \E i \in 1..Len(outbox[2]) :
          /\ outbox[2][i].type = "leave"
          /\ outbox[2][i].userId = sessionObj[1].userId
    /\ \A i \in 1..Len(outbox[1]) : outbox[1][i].type # "leave"
    /\ Len(outbox[3][3].users) = 2

\* the events that run a handler of the object
HandlerOps == {"fetch", "message", "close", "error", "alarm"}

\* C12: no fetch, message, close, error or alarm handler runs before the
\* constructor's load has run; the load runs on the empty history of the
\* constructor, before any append, and makes the persisted history the
\* in-memory one; and a session admitted before any append or cleanup of
\* this instance is sent the whole persisted history.
C12_LoadBarrier ==
    /\ [][lastEvent'.op \in HandlerOps => loaded]_vars
    /\ [][lastEvent'.op = "load" =>
            /\ ~loaded
            /\ messageHistory = <<>>
            /\ sessionObj = <<>>
            /\ msgCount = 0
            /\ alarmRuns = 0
            /\ messageHistory' = IF stored.present THEN stored.value
                                  ELSE <<>>]_vars
    /\ [][(AdmitStep /\ stored.present /\ msgCount = 0 /\ alarmRuns = 0) =>
            outbox'[Len(sessionObj')][1].messages = stored.value]_vars

\* the first session of an instance created over a persisted history of
\* two messages has been sent both
C12_Witness ==
    /\ lastEvent.op = "fetch"
    /\ lastEvent.sid = 1
    /\ msgCount = 0
    /\ alarmRuns = 0
    /\ stored.present
    /\ Len(outbox[1][1].messages) = 2
    /\ outbox[1][1].messages = stored.value

\* the step appended a message to the history or ran the cleanup
MutationStep == msgCount' = msgCount + 1 \/ alarmRuns' = alarmRuns + 1

\* C13: the history changes only in the load, in handleMessage and in
\* alarm(); every append and every cleanup issues a put, and when that put
\* is stored the value under 'messages' is the in-memory history of that
\* moment; the stored value never changes to anything else.
C13_StoreConverges ==
    /\ [][messageHistory' # messageHistory =>
            \/ lastEvent'.op = "load" /\ messageHistory' = stored.value
            \/ lastEvent'.op \in {"message", "alarm"} /\ MutationStep]_vars
    /\ [][(MutationStep /\ lastEvent'.putOk) =>
            stored' = Stored(messageHistory')]_vars
    /\ [][stored' # stored =>
            MutationStep /\ stored' = Stored(messageHistory')]_vars

\* a cleanup whose put was stored has run after an append: the store
\* holds the filtered history, the new message in it
C13_Witness ==
    /\ lastEvent.op = "alarm"
    /\ lastEvent.putOk
    /\ msgCount = 1
    /\ Len(messageHistory) = 2
    /\ messageHistory[2].content = Str("hi")
    /\ stored = Stored(messageHistory)

\* the step ran handleMessage and the frame was accepted
AppendStep == lastEvent'.op = "message" /\ msgCount' = msgCount + 1

\* C14: the message minted for an accepted frame carries the userId and
\* username of the session on whose socket the frame arrived, in the
\* history and in the copy every live session with an open socket
\* receives, whatever userId and username the frame itself holds.
C14_IdentityFromSession ==
    [][AppendStep =>
        LET s == lastEvent'.sid
            m == messageHistory'[Len(messageHistory')]
        IN  /\ m.id = nextId
            /\ m.userId = sessionObj[s].userId
            /\ m.username = sessionObj[s].username
            /\ \A t \in Live :
                  ws[t] = "open" =>
                      LET f == outbox'[t][Len(outbox'[t])]
                      IN  /\ f.id = nextId
                          /\ f.userId = sessionObj[s].userId
                          /\ f.username = sessionObj[s].username]_vars

\* Ann's session has sent a frame that names Bob, and the message in the
\* history and in Ann's outbox is Ann's
C14_Witness ==
    /\ lastEvent.op = "message"
    /\ lastEvent.text = FrameHi
    /\ lastEvent.sid = 1
    /\ JSONParse(FrameHi).userId = Str("u2")
    /\ sessionObj[1].userId = "u1"
    /\ messageHistory[Len(messageHistory)].userId = "u1"
    /\ messageHistory[Len(messageHistory)].username = "Ann"
    /\ outbox[1][Len(outbox[1])] = messageHistory[Len(messageHistory)]

\* C15: a run of alarm() whose put rejects leaves a wake-up pending.
C15_AlarmRearmsOnPutFailure ==
    [][(AlarmStep /\ ~lastEvent'.putOk) => alarms' # {}]_vars

\* C16: when the put of an accepted frame rejects, the minted message is
\* still the last entry of the in-memory history, all earlier entries
\* but those the cap cuts are kept, and every live session with an open
\* socket still receives the message; only the store stays as it was.
C16_PutFailureStillDelivers ==
    [][(AppendStep /\ ~lastEvent'.putOk) =>
        LET m == messageHistory'[Len(messageHistory')]
        IN  /\ m.id = nextId
            /\ m.type = "message"
            /\ messageHistory' =
                  IF Len(messageHistory) = MaxHistory
                  THEN Tail(messageHistory) \o <<m>>
                  ELSE messageHistory \o <<m>>
            /\ \A t \in Live :
                  outbox'[t] = IF ws[t] = "open" THEN Append(outbox[t], m)
                               ELSE outbox[t]
            /\ stored' = stored]_vars

\* the put of a message rejected, the store is behind the history, and
\* both live sessions have received the message
C16_Witness ==
    /\ lastEvent.op = "message"
    /\ lastEvent.sid # 0
    /\ ~lastEvent.putOk
    /\ sessions = <<1, 2>>
    /\ stored # Stored(messageHistory)
    /\ \A t \in {1, 2} :
          outbox[t][Len(outbox[t])] = messageHistory[Len(messageHistory)]

\* C17: a frame of type "message" whose content is a number is dropped:
\* nothing is appended, stored or sent.
C17_NumberContentDropped ==
    [][MessageStep(FrameNumber) =>
        UNCHANGED <<messageHistory, stored, outbox, nextId>>]_vars

\* C18: the presence snapshot a newly admitted session receives lists the
\* live set of that moment in its order: as many entries as live
\* sessions, the i-th the userId and username of the i-th live session,
\* the new session last, two sessions of one user as two entries, and no
\* session whose close or error has been handled.
C18_PresenceIsLiveSet ==
    [][AdmitStep =>
        LET new   == Len(sessionObj')
            frame == outbox'[new][3]
        IN  /\ frame.type = "presence"
            /\ Len(frame.users) = Cardinality(Live')
            /\ sessions'[Len(sessions')] = new
            /\ \A i \in 1..Len(sessions') :
                  /\ fired'[sessions'[i]] = {}
                  /\ ws'[sessions'[i]] # "closed"
                  /\ frame.users[i] =
                        [userId |-> sessionObj'[sessions'[i]].userId,
                         username |-> sessionObj'[sessions'[i]].username]]_vars

\* a user's second session has joined beside the first, after another
\* session left: the snapshot holds two entries of the same userId
C18_Witness ==
    /\ lastEvent.op = "fetch"
    /\ lastEvent.sid = 3
    /\ sessions = <<1, 3>>
    /\ fired[2] # {}
    /\ sessionObj[1].userId = sessionObj[3].userId
    /\ sessionObj[2].userId # sessionObj[3].userId
    /\ Len(outbox[3][3].users) = 2
    /\ outbox[3][3].users[1].userId = outbox[3][3].users[2].userId

\* the chat messages among the frames a client has received, in order
MessagesOf(ob) == SelectSeq(ob, LAMBDA f : f.type = "message")

\* C19: ids are minted in the order of the appends, the history holds its
\* messages in that order, and every session has received its chat
\* messages in that order; so any two sessions have received the
\* messages sent to both in the same relative order.
C19_SingleOrder ==
    /\ [][nextId' >= nextId]_vars
    /\ [][AppendStep =>
            /\ messageHistory'[Len(messageHistory')].id = nextId
            /\ nextId' > nextId]_vars
    /\ [](\A i, j \in 1..Len(messageHistory) :
              i < j => messageHistory[i].id < messageHistory[j].id)
    /\ [](\A s \in Sids :
              LET ms == MessagesOf(outbox[s])
              IN  \A i, j \in 1..Len(ms) : i < j => ms[i].id < ms[j].id)
    /\ [](\A s, t \in Sids :
              LET ms == MessagesOf(outbox[s])
                  mt == MessagesOf(outbox[t])
              IN  \A i, j \in 1..Len(ms), k, l \in 1..Len(mt) :
                      (i < j /\ ms[i] = mt[l] /\ ms[j] = mt[k]) => l < k)

\* two live sessions have each sent a message, and each has received
\* both, its own and the other's, in the order of the history
C19_Witness ==
    /\ sessions = <<1, 2>>
    /\ msgCount = 2
    /\ Len(MessagesOf(outbox[1])) = 2
    /\ MessagesOf(outbox[1]) = MessagesOf(outbox[2])
    /\ MessagesOf(outbox[1])[1].userId # MessagesOf(outbox[1])[2].userId
    /\ MessagesOf(outbox[1]) = messageHistory

\* every entry is a ChatMessage of type "message" that has a content
OnlyMessages(history) ==
    \A i \in 1..Len(history) :
        /\ history[i].type = "message"
        /\ "content" \in DOMAIN history[i]
        /\ history[i].content.t # "undefined"

\* C20: the in-memory history, the persisted one and every history batch
\* sent to a client hold only ChatMessages of type "message" with a
\* content; a fetch, a close and an error, which broadcast join and leave
\* events, leave the history and the store as they are.
C20_HistoryHoldsOnlyMessages ==
    /\ [](/\ OnlyMessages(messageHistory)
          /\ stored.present => OnlyMessages(stored.value)
          /\ \A s \in Sids : \A i \in 1..Len(outbox[s]) :
                outbox[s][i].type = "history"
                    => OnlyMessages(outbox[s][i].messages))
    /\ [][(CloseStep \/ lastEvent'.op = "fetch") =>
            UNCHANGED <<messageHistory, stored>>]_vars

\* two joins and a leave have been broadcast to the first session, and
\* the third session's history batch is the two persisted messages
C20_Witness ==
    /\ lastEvent.op = "fetch"
    /\ lastEvent.sid = 3
    /\ \E i \in 1..Len(outbox[1]) : outbox[1][i].type = "leave"
    /\ Cardinality({i \in 1..Len(outbox[1]) : outbox[1][i].type = "join"}) = 3
    /\ Len(messageHistory) = 2
    /\ outbox[3][1].messages = messageHistory
    /\ stored = Stored(messageHistory)

=============================================================================
